---- MODULE Spec2Model ----
(***************************************************************************)
(* Model of the klarman_vod gateway (src/main_klarman.ts): the four        *)
(* request handlers /main, /info, /watch and /search/:query, the cache     *)
(* keys they derive, the cache-aside resolution they go through, and the   *)
(* projection of the resolved records into the public response.            *)
(*                                                                         *)
(* A request is a flow of steps separated by the handler's awaits:         *)
(*   receive (validation, key construction) -> cache get -> upstream call  *)
(*   -> cache set -> projection and reply.                                 *)
(* Flows of different requests interleave at the awaits.                   *)
(***************************************************************************)
EXTENDS Naturals, Sequences, FiniteSets, TLC

VARIABLES
    redis,   \* TRUE iff the store is configured (REDIS_HOST set)
    cache,   \* the store: key -> [payload, ttl, writer]
    reqs     \* the requests received so far, in order of arrival

vars == <<redis, cache, reqs>>

(***************************************************************************)
(* Bounds and sample inputs                                                *)
(***************************************************************************)
MaxReq == 2

\* the value of a query parameter that is absent (JavaScript's undefined)
UNDEF == "<undefined>"

InfoIds == {UNDEF, "movies"}
EpisodeIds == {UNDEF, "e"}
MediaIds == {UNDEF, "m"}
Servers == {UNDEF, "", "vidcloud", "bad"}
\* raw :query path parameter and ?page= of the sample /search requests
SearchInputs ==
    { <<"info", "movies">>, <<"trending", "movies">>,
      <<"a%3Ab", "movies">>, <<"a", "b:movies">>, <<"a", UNDEF>> }

(***************************************************************************)
(* Constants of the program                                                *)
(***************************************************************************)
BASE_URL == "http://base"

\* TvType of @consumet/extensions
MOVIE == "Movie"
TVSERIES == "TV Series"

\* Object.values(StreamingServers): the enumeration of @consumet/extensions
\* (the members every version of the library has)
StreamingServers == {"vidcloud", "upcloud", "mixdrop"}

GenericInfoMessage ==
    "Something went wrong. Please try again later. or contact the developers."
GenericWatchMessage == "Something went wrong. Please try again later."

InfoTTL == 60 * 60 * 3
WatchTTL_CopyPaste == 60 * 60 * 3
WatchTTL == 60 * 30
SearchTTL == 60 * 60 * 6
TrendingTTL == 60 * 60 * 3

(***************************************************************************)
(* String conversions                                                      *)
(***************************************************************************)
\* `${v}` : a template literal renders undefined as the text "undefined"
Str(v) == IF v = UNDEF THEN "undefined" ELSE v

\* a value used as a condition
Truthy(v) == v # UNDEF /\ v # ""

decodeURIComponent(s) ==
    CASE s = "a%3Ab" -> "a:b"
      [] OTHER -> s

encodeURIComponent(s) ==
    CASE s = "a:b" -> "a%3Ab"
      [] OTHER -> s

\* (item.season as string).replace(/SS |S /g, "")
StripSeason(s) ==
    CASE s = "SS 2" -> "2"
      [] s = "S 1" -> "1"
      [] OTHER -> s

\* (item.latestEpisode as string).replace(/EP |EPS /g, "")
StripEpisode(s) ==
    CASE s = "EP 3" -> "3"
      [] s = "EPS 12" -> "12"
      [] OTHER -> s

(***************************************************************************)
(* Cache keys                                                              *)
(***************************************************************************)
TrendingTvKey == "flixhq:trending:tv"
TrendingMoviesKey == "flixhq:trending:movies"

InfoKey_WrongTag(id) == "flixhq:trending:" \o Str(id)
InfoKey(id) == "flixhq:info:" \o Str(id)

WatchKey(episodeId, mediaId, server) ==
    "flixhq:watch:" \o Str(episodeId) \o ":" \o Str(mediaId) \o ":" \o Str(server)

SearchKey(query, page) == "flixhq:" \o Str(query) \o ":" \o Str(page)

(***************************************************************************)
(* The upstream provider (flixhq) and the image host: external, so every   *)
(* call answers with any of the sample outcomes, or fails.                 *)
(***************************************************************************)
Ok(v) == [ok |-> TRUE, value |-> v]
Threw(e) == [ok |-> FALSE, err |-> e]

UpstreamError == "upstream: request failed with status code 503"
ImageError == "axios: connect ETIMEDOUT"

Episode(id, n) == [id |-> id, title |-> "Episode " \o id, number |-> n, season |-> 1]
EpisodeLists ==
    { <<>>, <<Episode("e1", 1)>>, <<Episode("e2", 1), Episode("e1", 2)>> }

\* flixhq.fetchMediaInfo(id)
MediaInfoOutcomes(id) ==
    {Threw(UpstreamError)} \cup
    { Ok([id |-> id, title |-> "T", type |-> t, episodes |-> eps]) :
        t \in {MOVIE, TVSERIES}, eps \in EpisodeLists }

Source(u) == [url |-> u, isM3U8 |-> TRUE]
SourceLists ==
    { <<>>, <<Source("A"), Source("B"), Source("C")>>, <<Source("C"), Source("A")>> }
SubtitleLists == { <<>>, <<[url |-> "s1", lang |-> "en"], [url |-> "s2", lang |-> "fr"]>> }

\* flixhq.fetchEpisodeSources(episodeId, mediaId, server)
EpisodeSourcesOutcomes ==
    {Threw(UpstreamError)} \cup
    { Ok([sources |-> s, subtitles |-> t]) : s \in SourceLists, t \in SubtitleLists }

SearchItems ==
    << [id |-> "movie/x", title |-> "X", type |-> MOVIE, releaseDate |-> "2020"],
       [id |-> "tv/y", title |-> "Y", type |-> TVSERIES, seasons |-> 2] >>
CurrentPages == {1, 3}

\* flixhq.search(query, page)
SearchOutcomes ==
    {Threw(UpstreamError)} \cup
    { Ok([results |-> SearchItems, currentPage |-> p, hasNextPage |-> h]) :
        p \in CurrentPages, h \in BOOLEAN }

\* an array is modelled as a record with the one field items
Array(s) == [items |-> s]

TvItem == [id |-> "tv/y", title |-> "Y", season |-> "SS 2",
           image |-> "http://img/y.png", latestEpisode |-> "EP 3"]
MovieItem == [id |-> "movie/x", title |-> "X", releaseDate |-> "2020",
              image |-> "http://img/x.png", duration |-> "90m"]

\* flixhq.fetchTrendingTvShows()
TrendingTvOutcomes == {Threw(UpstreamError), Ok(Array(<<>>)), Ok(Array(<<TvItem>>))}

\* flixhq.fetchTrendingMovies()
TrendingMoviesOutcomes == {Threw(UpstreamError), Ok(Array(<<MovieItem>>))}

\* what the image host answers to axios.get(url): some bytes, or a failure
ImageOutcomes == {Threw(ImageError), Ok("b1"), Ok("b2")}

\* Buffer.from(data).toString('base64')
Base64(bytes) ==
    CASE bytes = "b1" -> "YjE="
      [] bytes = "b2" -> "YjI="

\* getImage(url), given the bytes axios.get returned
getImage(bytes) == "data:image/png;base64," \o Base64(bytes)

(***************************************************************************)
(* Projections.  A resolved value is a record; reading a property the      *)
(* record lacks gives undefined, and using undefined as an object or as a  *)
(* function throws a TypeError.                                            *)
(***************************************************************************)
Has(v, f) == f \in DOMAIN v
TypeError == Threw("TypeError: Cannot read properties of undefined")
NotAFunction == Threw("TypeError: moviesTrending.map is not a function")

InfoUrl(id) == BASE_URL \o "/info?id=" \o id
WatchUrl(episodeId, mediaId) ==
    BASE_URL \o "/watch?episodeId=" \o episodeId \o "&mediaId=" \o mediaId
SearchUrl(query, page) ==
    BASE_URL \o "/search/" \o encodeURIComponent(query) \o "?page=" \o ToString(page)

\* /info: the movie shape
MovieEpisodes_Last(res) ==
    [watch_url |-> WatchUrl(res.episodes[Len(res.episodes)].id, res.id)]
MovieEpisodes(res) == [watch_url |-> WatchUrl(res.episodes[1].id, res.id)]

\* /info: the series shape
SeriesEpisodes(res) ==
    [i \in 1..Len(res.episodes) |->
        [title |-> res.episodes[i].title,
         episode |-> res.episodes[i].number,
         season |-> res.episodes[i].season,
         watch_url |-> WatchUrl(res.episodes[i].id, res.id)]]

InfoProject(res) ==
    IF Has(res, "type") /\ res.type = MOVIE
    THEN IF ~Has(res, "episodes") \/ Len(res.episodes) = 0
         THEN TypeError
         ELSE Ok([id |-> res.id, title |-> res.title, type |-> "movie",
                  episodes |-> MovieEpisodes(res)])
    ELSE IF ~Has(res, "episodes")
         THEN TypeError
         ELSE Ok([id |-> res.id, title |-> res.title, type |-> "series",
                  episodes |-> SeriesEpisodes(res)])

\* /watch: res.sources.slice(-1)[0]
SelectSource_First(sources) == sources[1]
SelectSource(sources) == sources[Len(sources)]

WatchProject(res) ==
    IF ~Has(res, "sources") \/ Len(res.sources) = 0
    THEN TypeError
    ELSE Ok([url |-> SelectSource(res.sources).url, subtitles |-> res.subtitles])

\* /search: one media item
SearchItem(item) ==
    IF item.type = MOVIE
    THEN [id |-> item.id, title |-> item.title, type |-> "movie",
          release_date |-> item.releaseDate, info_url |-> InfoUrl(item.id)]
    ELSE [id |-> item.id, title |-> item.title, type |-> "series",
          seasons |-> item.seasons, info_url |-> InfoUrl(item.id)]

NULL == "<null>"

NextPageUrl(query, res) ==
    IF res.hasNextPage THEN SearchUrl(query, res.currentPage + 1) ELSE NULL

PrevPageUrl_FromOne(query, res) ==
    IF res.currentPage >= 1 THEN SearchUrl(query, res.currentPage - 1) ELSE NULL
PrevPageUrl(query, res) ==
    IF res.currentPage > 1 THEN SearchUrl(query, res.currentPage - 1) ELSE NULL

SearchProject(query, res) ==
    IF ~Has(res, "results")
    THEN TypeError
    ELSE Ok([next_page_url |-> NextPageUrl(query, res),
             prev_page_url |-> PrevPageUrl(query, res),
             media_items |-> [i \in 1..Len(res.results) |-> SearchItem(res.results[i])]])

\* /main: one trending TV item, given the image getImage resolved for it
TvProject(item, image) ==
    [id |-> item.id, title |-> item.title, image |-> image,
     latest_season |-> StripSeason(item.season),
     latest_episode |-> StripEpisode(item.latestEpisode),
     type |-> "series", info_url |-> InfoUrl(item.id)]

\* /main: one trending movie item
MovieProject(item) ==
    [id |-> item.id, title |-> item.title, image |-> item.image,
     release_date |-> item.releaseDate, duration |-> item.duration,
     type |-> "movie", info_url |-> InfoUrl(item.id)]

MainProject(formattedTv, res) ==
    IF ~Has(res, "items")
    THEN NotAFunction
    ELSE Ok([sections |->
               << [title |-> "Trending TV Series", media_items |-> formattedTv],
                  [title |-> "Trending Movies",
                   media_items |-> [i \in 1..Len(res.items) |-> MovieProject(res.items[i])]] >>])

(***************************************************************************)
(* Requests                                                                *)
(***************************************************************************)
NoValue == [none |-> TRUE]

\* pc: the await the flow is suspended at
\*   "tv" "images"  /main, before its cache.fetch
\*   "get"          cache.fetch: the store's get
\*   "produce"      cache.fetch: the producer (the upstream call)
\*   "set"          cache.fetch: the store's set
\*   "respond"      cache.fetch has returned; projection and reply follow
\*   "done"         replied
NewReq(route, q) ==
    [n |-> Len(reqs) + 1,  \* order of arrival
     route |-> route, q |-> q, key |-> "", pc |-> "done",
     lookup |-> "none",     \* "hit" / "miss" once the store's get has answered
     readFrom |-> 0,        \* on a hit: the request that wrote the entry read
     storeOps |-> <<>>,     \* the store operations of this request, in order
     upstream |-> <<>>,     \* the provider calls of this request, in order
     http |-> 0,            \* the other outbound HTTP calls of this request
     tvRaw |-> NoValue,     \* /main: the trending TV records
     tvOut |-> <<>>,        \* /main: their projection
     value |-> NoValue,     \* what cache.fetch returned
     err |-> "",            \* the failure thrown inside the handler, if any
     caught |-> FALSE,      \* TRUE iff the handler's own catch replied
     status |-> 0, body |-> NoValue]

Reply(r, status, body) == [r EXCEPT !.pc = "done", !.status = status, !.body = body]

\* Fastify's default error handler: no setErrorHandler is registered, so an
\* error thrown out of a handler is replied as 500 with the error's message
DefaultErrorReply(err) ==
    [statusCode |-> 500, error |-> "Internal Server Error", message |-> err]

\* an error thrown inside a handler: /info and /watch wrap their body in
\* try/catch, /main and /search do not
Fail(r, err) ==
    CASE r.route = "info" ->
            [Reply(r, 500, [message |-> GenericInfoMessage])
                EXCEPT !.err = err, !.caught = TRUE]
      [] r.route = "watch" ->
            [Reply(r, 500, [message |-> GenericWatchMessage])
                EXCEPT !.err = err, !.caught = TRUE]
      [] OTHER ->
            [Reply(r, 500, DefaultErrorReply(err)) EXCEPT !.err = err]

TTL(route) ==
    CASE route = "main" -> TrendingTTL
      [] route = "info" -> InfoTTL
      [] route = "watch" -> WatchTTL
      [] route = "search" -> SearchTTL

\* the producer passed to cache.fetch
TrendingMoviesProducer ==
    [fn |-> "fetchTrendingMovies", args |-> <<>>, outcomes |-> TrendingMoviesOutcomes]
Producer(r) ==
    CASE r.route = "main" -> TrendingMoviesProducer
      [] r.route = "info" ->
            [fn |-> "fetchMediaInfo", args |-> <<r.q.id>>,
             outcomes |-> MediaInfoOutcomes(r.q.id)]
      [] r.route = "watch" ->
            [fn |-> "fetchEpisodeSources",
             args |-> <<r.q.episodeId, r.q.mediaId, r.q.server>>,
             outcomes |-> EpisodeSourcesOutcomes]
      [] r.route = "search" ->
            [fn |-> "search",
             args |-> <<r.q.query, IF Truthy(r.q.page) THEN r.q.page ELSE "1">>,
             outcomes |-> SearchOutcomes]

Project(r) ==
    CASE r.route = "main" -> MainProject(r.tvOut, r.value)
      [] r.route = "info" -> InfoProject(r.value)
      [] r.route = "watch" -> WatchProject(r.value)
      [] r.route = "search" -> SearchProject(r.q.query, r.value)

(***************************************************************************)
(* The store and the serialization of its payloads (utils/cache)           *)
(***************************************************************************)
Serialize(v) == [json |-> v]
Deserialize(p) == p.json

EmptyStore == [k \in {} |-> NoValue]

StoreSet(store, key, entry) ==
    [k \in DOMAIN store \cup {key} |-> IF k = key THEN entry ELSE store[k]]

StoreDel(store, key) == [k \in DOMAIN store \ {key} |-> store[k]]

GetOp(key) == [key |-> key, op |-> "get"]

(***************************************************************************)
(* Initial state                                                           *)
(***************************************************************************)
Init ==
    /\ redis \in BOOLEAN
    /\ cache = EmptyStore
    /\ reqs = <<>>

(***************************************************************************)
(* Handlers: the synchronous head of each, up to its first await           *)
(***************************************************************************)
Receive(r) ==
    /\ Len(reqs) < MaxReq
    /\ reqs' = Append(reqs, r)
    /\ UNCHANGED <<redis, cache>>

\* GET /main
MainReq == [NewReq("main", <<>>) EXCEPT !.pc = "tv"]
ReceiveMain == Receive(MainReq)

\* GET /info?id=
ReceiveInfo ==
    \E id \in InfoIds :
        LET r == NewReq("info", [id |-> id]) IN
        Receive(IF id = UNDEF
                THEN Reply(r, 400, [message |-> "id is required"])
                ELSE [r EXCEPT !.pc = "get", !.key = InfoKey(id)])

\* GET /watch?episodeId=&mediaId=&server=
ReceiveWatch ==
    \E episodeId \in EpisodeIds, mediaId \in MediaIds, server \in Servers :
        LET r == NewReq("watch", [episodeId |-> episodeId, mediaId |-> mediaId,
                                  server |-> server]) IN
        Receive(IF episodeId = UNDEF
                THEN Reply(r, 400, [message |-> "episodeId is required"])
                ELSE IF mediaId = UNDEF
                THEN Reply(r, 400, [message |-> "mediaId is required"])
                ELSE IF Truthy(server) /\ server \notin StreamingServers
                THEN Reply(r, 400, [message |-> "Invalid server query"])
                ELSE [r EXCEPT !.pc = "get",
                               !.key = WatchKey(episodeId, mediaId, server)])

\* GET /search/:query?page=
ReceiveSearch ==
    \E in \in SearchInputs :
        LET query == decodeURIComponent(in[1])
            page == in[2]
            r == NewReq("search", [query |-> query, page |-> page])
        IN Receive([r EXCEPT !.pc = "get", !.key = SearchKey(query, page)])

(***************************************************************************)
(* Steps of a flow, each resumed at an await                               *)
(***************************************************************************)
Step(i, r) == reqs' = [reqs EXCEPT ![i] = r]

\* /main: const tvTrending = await flixhq.fetchTrendingTvShows()
TrendingTvCall == [fn |-> "fetchTrendingTvShows", args |-> <<>>]
FetchTrendingTv(i) ==
    /\ reqs[i].pc = "tv"
    /\ \E out \in TrendingTvOutcomes :
         LET r == [reqs[i] EXCEPT
                     !.upstream = Append(@, TrendingTvCall)]
         IN Step(i, IF out.ok
                    THEN [r EXCEPT !.tvRaw = out.value, !.pc = "images"]
                    ELSE Fail(r, out.err))
    /\ UNCHANGED <<redis, cache>>

\* /main: await Promise.all(tvTrending.map(async item => ... await getImage(item.image)))
\* (the sample lists hold at most one item, so one image outcome is drawn)
GetImages(i) ==
    /\ reqs[i].pc = "images"
    /\ LET items == reqs[i].tvRaw.items
           r == [reqs[i] EXCEPT !.http = @ + Len(items)]
           next == [r EXCEPT !.pc = "get", !.key = TrendingMoviesKey]
       IN IF Len(items) = 0
          THEN Step(i, next)
          ELSE \E img \in ImageOutcomes :
                 Step(i, IF img.ok
                         THEN [next EXCEPT !.tvOut =
                                 [j \in 1..Len(items) |->
                                     TvProject(items[j], getImage(img.value))]]
                         ELSE Fail(r, img.err))
    /\ UNCHANGED <<redis, cache>>

\* cache.fetch: without a store the producer is called directly; with one,
\* the store's get answers with the entry (a hit) or with nothing (a miss)
Lookup(i) ==
    /\ reqs[i].pc = "get"
    /\ LET r == reqs[i] IN
       IF ~redis
       THEN Step(i, [r EXCEPT !.pc = "produce"])
       ELSE LET got == [r EXCEPT !.storeOps = Append(@, GetOp(r.key))]
            IN IF r.key \in DOMAIN cache
               THEN Step(i, [got EXCEPT !.lookup = "hit",
                                        !.readFrom = cache[r.key].writer,
                                        !.value = Deserialize(cache[r.key].payload),
                                        !.pc = "respond"])
               ELSE Step(i, [got EXCEPT !.lookup = "miss", !.pc = "produce"])
    /\ UNCHANGED <<redis, cache>>

\* cache.fetch: the producer, i.e. the handler's upstream call
Produce(i) ==
    /\ reqs[i].pc = "produce"
    /\ LET p == Producer(reqs[i])
           r == [reqs[i] EXCEPT !.upstream = Append(@, [fn |-> p.fn, args |-> p.args])]
       IN \E out \in p.outcomes :
            Step(i, IF out.ok
                    THEN [r EXCEPT !.value = out.value,
                                   !.pc = IF redis THEN "set" ELSE "respond"]
                    ELSE Fail(r, out.err))
    /\ UNCHANGED <<redis, cache>>

\* cache.fetch: the store's set of the serialized value with the call's TTL
Populate(i) ==
    /\ reqs[i].pc = "set"
    /\ LET r == reqs[i]
           entry == [payload |-> Serialize(r.value), ttl |-> TTL(r.route), writer |-> i]
       IN /\ cache' = StoreSet(cache, r.key, entry)
          /\ Step(i, [r EXCEPT !.pc = "respond",
                               !.storeOps = Append(@, [op |-> "set", key |-> r.key,
                                                       payload |-> entry.payload,
                                                       ttl |-> entry.ttl])])
    /\ UNCHANGED redis

\* the rest of the handler: projection of the resolved value and the reply
Respond(i) ==
    /\ reqs[i].pc = "respond"
    /\ LET out == Project(reqs[i])
       IN Step(i, IF out.ok
                  THEN Reply(reqs[i], 200, out.value)
                  ELSE Fail(reqs[i], out.err))
    /\ UNCHANGED <<redis, cache>>

\* the store drops an entry whose TTL has run out
Expire(k) ==
    /\ k \in DOMAIN cache
    /\ cache' = StoreDel(cache, k)
    /\ UNCHANGED <<redis, reqs>>

Next ==
    \/ ReceiveMain
    \/ ReceiveInfo
    \/ ReceiveWatch
    \/ ReceiveSearch
    \/ \E i \in 1..Len(reqs) : FetchTrendingTv(i)
    \/ \E i \in 1..Len(reqs) : GetImages(i)
    \/ \E i \in 1..Len(reqs) : Lookup(i)
    \/ \E i \in 1..Len(reqs) : Produce(i)
    \/ \E i \in 1..Len(reqs) : Populate(i)
    \/ \E i \in 1..Len(reqs) : Respond(i)
    \/ \E k \in DOMAIN cache : Expire(k)

Spec == Init /\ [][Next]_vars

(***************************************************************************)
(* Properties                                                              *)
(***************************************************************************)
Ids == 1..Len(reqs)
IsDone(r) == r.pc = "done"
Resolved(r) == r.value # NoValue
CachedRoutes == {"info", "watch", "search"}
Fns(r) == {r.upstream[n].fn : n \in 1..Len(r.upstream)}
Ops(r) == {r.storeOps[n] : n \in 1..Len(r.storeOps)}
GetTrendingTv == GetOp(TrendingTvKey)
GetTrendingMovies == GetOp(TrendingMoviesKey)

\* two replies are the same: status and body (bodies of one shape are compared)
SameResponse(a, b) ==
    /\ a.status = b.status
    /\ DOMAIN a.body = DOMAIN b.body
    /\ IF "type" \in DOMAIN a.body
       THEN a.body.type = b.body.type /\ a.body = b.body
       ELSE a.body = b.body

\* the provider is called only after a miss, and a miss that produced a value
\* stored it under the request's key with the TTL written at the call site
MissThenPopulate(r) ==
    /\ r.upstream # <<>> => r.lookup = "miss"
    /\ (r.lookup = "miss" /\ Resolved(r) /\ r.pc # "set") =>
          [op |-> "set", key |-> r.key, payload |-> Serialize(r.value),
           ttl |-> CASE r.route = "info" -> 10800
                     [] r.route = "watch" -> 1800
                     [] r.route = "search" -> 21600] \in Ops(r)

\* a hit is answered from the entry: the writer's value, no provider call
HitFromCache(r) ==
    r.lookup = "hit" =>
        /\ r.upstream = <<>>
        /\ r.pc \in {"respond", "done"}
        /\ r.value = reqs[r.readFrom].value

\* C1 as stated: with the store configured, for /info, /watch and /search the
\* provider is called only after a miss on the request's key, a miss that
\* produced a value stores it under that key with the call site's TTL, and any
\* later request deriving the same key that finds the entry is answered from
\* the cache, without a provider call, with the same response as the request
\* that stored the entry.
C1_AsStated ==
    redis =>
      \A i \in Ids :
        LET r == reqs[i] IN
        r.route \in CachedRoutes =>
          /\ MissThenPopulate(r)
          /\ HitFromCache(r)
          /\ (r.lookup = "hit" /\ IsDone(r) /\ IsDone(reqs[r.readFrom])) =>
                SameResponse(r, reqs[r.readFrom])

\* C1 amended: as C1, but the response of the later request is the same as the
\* storing request's only when it is a request to the same route with the same
\* parameters; any request deriving the key is still resolved from the entry
\* (the storing request's value) without a provider call.
C1_CacheAside ==
    redis =>
      \A i \in Ids :
        LET r == reqs[i] IN
        r.route \in CachedRoutes =>
          /\ MissThenPopulate(r)
          /\ HitFromCache(r)
          /\ (/\ r.lookup = "hit" /\ IsDone(r) /\ IsDone(reqs[r.readFrom])
              /\ reqs[r.readFrom].route = r.route
              /\ reqs[r.readFrom].q = r.q) =>
                SameResponse(r, reqs[r.readFrom])

\* a /watch request that missed and replied 200, then a second /watch request
\* with the same parameters answered 200 from the entry the first stored
C1_Witness ==
    /\ redis
    /\ \E i \in Ids :
         LET r == reqs[i] IN
         /\ r.route = "watch" /\ r.lookup = "hit" /\ IsDone(r) /\ r.status = 200
         /\ IsDone(reqs[r.readFrom])
         /\ reqs[r.readFrom].route = "watch"
         /\ reqs[r.readFrom].q = r.q
         /\ reqs[r.readFrom].lookup = "miss"

\* C2 as stated: /info without id is answered 400 'id is required'; /watch
\* without episodeId 400 'episodeId is required', otherwise without mediaId 400
\* 'mediaId is required', otherwise with a server value that is not a valid
\* streaming server 400 'Invalid server query'; and a request answered 400 has
\* made no store operation and no provider call.
C2_AsStated ==
    \A i \in Ids :
      LET r == reqs[i]
          Is400(msg) == r.status = 400 /\ r.body = [message |-> msg]
      IN /\ (r.route = "info" /\ r.q.id = UNDEF) => Is400("id is required")
         /\ r.route = "watch" =>
              IF r.q.episodeId = UNDEF THEN Is400("episodeId is required")
              ELSE IF r.q.mediaId = UNDEF THEN Is400("mediaId is required")
              ELSE (r.q.server # UNDEF /\ r.q.server \notin StreamingServers)
                      => Is400("Invalid server query")
         /\ r.status = 400 => r.storeOps = <<>> /\ r.upstream = <<>>

\* C3 as stated: on every route a failure of the provider call, of the
\* cache-aside resolution or of the projection is caught by the handler and
\* answered 500 with a fixed message that carries nothing of the failure.
C3_AsStated ==
    \A i \in Ids :
      LET r == reqs[i] IN
      r.err # "" =>
        /\ r.status = 500
        /\ r.caught
        /\ DOMAIN r.body = {"message"}
        /\ r.body.message \in {GenericInfoMessage, GenericWatchMessage}

\* C4 as stated: /main resolves both trending lists through cache.fetch, the TV
\* list under flixhq:trending:tv and the movies under flixhq:trending:movies:
\* each of its provider calls follows a missed get of that list's key.
C4_AsStated ==
    redis =>
      \A i \in Ids :
        LET r == reqs[i] IN
        r.route = "main" =>
          /\ "fetchTrendingTvShows" \in Fns(r) =>
                GetTrendingTv \in Ops(r)
          /\ "fetchTrendingMovies" \in Fns(r) =>
                GetTrendingMovies \in Ops(r)

\* C5 as stated: the /watch key is flixhq:watch:<episodeId>:<mediaId>:<server>
\* and the /search key is flixhq:<query>:<page>, the last component being the
\* empty string when server, respectively page, is omitted.
C5_AsStated ==
    \A i \in Ids :
      LET r == reqs[i] IN
      r.status # 400 =>
        /\ r.route = "watch" =>
              r.key = "flixhq:watch:" \o r.q.episodeId \o ":" \o r.q.mediaId \o ":"
                        \o (IF r.q.server = UNDEF THEN "" ELSE r.q.server)
        /\ r.route = "search" =>
              r.key = "flixhq:" \o r.q.query \o ":"
                        \o (IF r.q.page = UNDEF THEN "" ELSE r.q.page)

\* C6: for every detail record /info resolved and answered 200: a record typed
\* movie gives type 'movie' and episodes a single object {watch_url} built
\* from the first episode's id and the record's id; any other record gives
\* type 'series' and episodes one entry per upstream episode, in upstream
\* order, each watch_url built from that episode's id and the record's id.
C6_InfoProjection ==
    \A i \in Ids :
      LET r == reqs[i]
          v == r.value
      IN (r.route = "info" /\ r.status = 200) =>
           IF v.type = MOVIE
           THEN /\ r.body.type = "movie"
                /\ DOMAIN r.body.episodes = {"watch_url"}
                /\ r.body.episodes.watch_url =
                      "http://base/watch?episodeId=" \o Head(v.episodes).id
                          \o "&mediaId=" \o v.id
           ELSE /\ r.body.type = "series"
                /\ Len(r.body.episodes) = Len(v.episodes)
                /\ \A n \in 1..Len(v.episodes) :
                      r.body.episodes[n].watch_url =
                          "http://base/watch?episodeId=" \o v.episodes[n].id
                              \o "&mediaId=" \o v.id

\* a movie record and a series record, each with two episodes, both answered 200
C6_Witness ==
    \E i, j \in Ids :
      /\ reqs[i].route = "info" /\ reqs[i].status = 200
      /\ reqs[i].value.type = MOVIE /\ Len(reqs[i].value.episodes) = 2
      /\ reqs[j].route = "info" /\ reqs[j].status = 200
      /\ reqs[j].value.type = TVSERIES /\ Len(reqs[j].value.episodes) = 2

\* C7: for every search result with currentPage >= 1 answered 200:
\* next_page_url is null when hasNextPage is false and otherwise the search URL
\* of the same query with page currentPage + 1; prev_page_url is null when
\* currentPage = 1 and otherwise the search URL of the same query with page
\* currentPage - 1.
C7_Pagination ==
    \A i \in Ids :
      LET r == reqs[i]
          v == r.value
          url(n) == "http://base/search/" \o encodeURIComponent(r.q.query)
                        \o "?page=" \o ToString(n)
      IN (r.route = "search" /\ r.status = 200 /\ v.currentPage >= 1) =>
           /\ r.body.next_page_url =
                 IF v.hasNextPage THEN url(v.currentPage + 1) ELSE NULL
           /\ r.body.prev_page_url =
                 IF v.currentPage = 1 THEN NULL ELSE url(v.currentPage - 1)

\* a first page without a next page, and a third page with one, of a query
\* that needs percent-encoding
C7_Witness ==
    \E i, j \in Ids :
      /\ reqs[i].route = "search" /\ reqs[i].status = 200
      /\ reqs[i].value.currentPage = 1 /\ ~reqs[i].value.hasNextPage
      /\ reqs[j].route = "search" /\ reqs[j].status = 200
      /\ reqs[j].value.currentPage = 3 /\ reqs[j].value.hasNextPage
      /\ reqs[j].q.query = "a:b"

\* C8: for every /watch request whose resolved stream result has a non-empty
\* sequence of sources, the 200 response's url is the url of the last source
\* and subtitles is the upstream subtitle sequence; with an empty sequence the
\* request is answered 500.
C8_LastSource ==
    \A i \in Ids :
      LET r == reqs[i]
          v == r.value
      IN (r.route = "watch" /\ IsDone(r) /\ Resolved(r)) =>
           IF Len(v.sources) > 0
           THEN /\ r.status = 200
                /\ r.body.url = v.sources[Len(v.sources)].url
                /\ r.body.subtitles = v.subtitles
           ELSE r.status = 500

\* sources [A, B, C] answered 200, and an empty sequence answered 500
C8_Witness ==
    \E i, j \in Ids :
      /\ reqs[i].route = "watch" /\ reqs[i].status = 200
      /\ Len(reqs[i].value.sources) = 3
      /\ reqs[j].route = "watch" /\ reqs[j].status = 500 /\ Resolved(reqs[j])
      /\ Len(reqs[j].value.sources) = 0

\* C9 as stated: the projection does no I/O: the only external calls of a
\* request are the store's get/set and provider calls, and projecting the same
\* raw records twice gives the same output (here: two /main requests answered
\* 200 from the same trending records give the same body).
C9_AsStated ==
    /\ \A i \in Ids : reqs[i].http = 0
    /\ \A i, j \in Ids :
         (/\ reqs[i].route = "main" /\ reqs[j].route = "main"
          /\ reqs[i].status = 200 /\ reqs[j].status = 200
          /\ reqs[i].tvRaw = reqs[j].tvRaw
          /\ reqs[i].value = reqs[j].value) => reqs[i].body = reqs[j].body

\* C10 as stated: every value a handler reads from the cache under its key was
\* written by a request of the same resource class with the same parameters,
\* and no /search request derives the key of a /info, /watch or trending entry.
C10_AsStated ==
    /\ \A i \in Ids :
         LET r == reqs[i] IN
         r.lookup = "hit" =>
            /\ reqs[r.readFrom].route = r.route
            /\ reqs[r.readFrom].q = r.q
    /\ \A i, j \in Ids :
         (/\ reqs[i].route = "search" /\ reqs[j].route # "search"
          /\ reqs[j].key # "") => reqs[i].key # reqs[j].key

\* C10 amended: the keys of the trending-movies, /info and /watch classes never
\* coincide with one another, so a value /main, /info or /watch reads from the
\* cache was written by a request of its own class or by a /search request
\* (whose key carries no class tag and can be that of any entry); a value
\* /info reads that /info wrote was written for the same id.
C10_TaggedKeysIsolated ==
    /\ \A i, j \in Ids :
         (/\ reqs[i].route # "search" /\ reqs[j].route # "search"
          /\ reqs[i].route # reqs[j].route
          /\ reqs[i].key # "") => reqs[i].key # reqs[j].key
    /\ \A i \in Ids :
         LET r == reqs[i] IN
         (r.lookup = "hit" /\ r.route # "search") =>
            /\ reqs[r.readFrom].route \in {r.route, "search"}
            /\ (r.route = "info" /\ reqs[r.readFrom].route = "info") =>
                  reqs[r.readFrom].q = r.q

\* a /info request has read, under its key, an entry that a /search request
\* wrote, and has replied
C10_Witness ==
    \E i \in Ids :
      /\ reqs[i].route = "info" /\ reqs[i].lookup = "hit" /\ IsDone(reqs[i])
      /\ reqs[reqs[i].readFrom].route = "search"

====
